---- MODULE Spec2Model ----
(***************************************************************************)
(* Model of the notebooks of openkinome/abl_resistance.                    *)
(*                                                                         *)
(*  - the three docking notebooks (abl_complex_modeling,                   *)
(*    abl_complex_modeling_with_water and unnamed/part_000): one loop over *)
(*    the dict tkis that builds a ProteinLigandComplex per entry and hands *)
(*    it to docking_featurizer.featurize;                                  *)
(*  - the ATP notebook (unnamed/part_001): the KLIFS table is retrieved,   *)
(*    filtered, sorted and reduced to one row per PDB id (cells 2-11), the *)
(*    selected structures are downloaded (cell 12) and copied into one     *)
(*    directory per number of Mg2+ ions (cells 13-14).                     *)
(*                                                                         *)
(* Init picks the notebook and what the remote services hold, the cells    *)
(* run in notebook order.  Under Spec a behaviour is one run of one        *)
(* notebook; under SpecRuns the ATP notebook is run again on the file      *)
(* system the earlier run left, and the remote database may change.        *)
(***************************************************************************)
EXTENDS Integers, Sequences, FiniteSets, TLC

VARIABLES
    notebook,               \* the notebook this run executes
    pc,                     \* the cell (or loop position) that runs next
    \* ---- docking notebooks
    tki_i,                  \* number of entries of tkis the for loop has taken
    heap,                   \* number of Python objects built so far
    kinase_ligand_complex,  \* notebook variable of the same name
    system,                 \* notebook variable of the same name
    featurize_calls,        \* history: argument and outcome of every featurize call
    \* ---- ATP notebook
    klifs,                  \* the remote KLIFS database
    kinase_df,              \* notebook variable of the same name (rows in order)
    shown,                  \* what the display cells (7, 8, 10, 11, 14) read and printed
    dirs,                   \* directories of the file system
    files,                  \* files of the file system: path -> text
    loop_rows,              \* the selection a running for loop iterates
    row_i,                  \* number of rows the running for loop has taken
    fetched,                \* history: the remote call and the file accesses of
                            \* every loop iteration of this run
    no_mg, one_mg, two_mg, more_mg, \* notebook lists of cell 13
    \* ---- ATP notebook run again on the same file system
    run,                    \* number of the run of the notebook (1, 2, ...)
    updates,                \* number of changes of the remote database so far
    changed,                \* the remote database changed since this run began
    prev                    \* history: how the previous run ended

dockVars == <<tki_i, heap, kinase_ligand_complex, system, featurize_calls>>
atpVars == <<klifs, kinase_df, shown, dirs, files, loop_rows, row_i, fetched,
             no_mg, one_mg, two_mg, more_mg>>
runVars == <<run, updates, changed, prev>>
vars == <<notebook, pc, dockVars, atpVars, runVars>>

\* Python's None
None == [none |-> TRUE]

\* no path: the iteration did not read or write a file
NoPath == <<>>

\* no earlier run
NoRun ==
    [pc |-> "none", kinase_df |-> <<>>, no_mg |-> <<>>, one_mg |-> <<>>,
     two_mg |-> <<>>, more_mg |-> <<>>, files |-> <<>>, changed |-> FALSE]

(***************************************************************************)
(* Docking notebooks                                                       *)
(***************************************************************************)
DockingNotebooks ==
    {"abl_complex_modeling", "abl_complex_modeling_with_water", "part_000"}

\* cell 2: the dict tkis, in insertion order (name, SMILES from ChEMBL)
TkiEntries ==
    << <<"axitinib",  "CNC(=O)c1ccccc1Sc1ccc2c(/C=C/c3ccccn3)n[nH]c2c1">>,
       <<"bosutinib", "COc1cc(Nc2c(C#N)cnc3cc(OCCCN4CCN(C)CC4)c(OC)cc23)c(Cl)cc1Cl">>,
       <<"dasatinib", "Cc1nc(Nc2ncc(C(=O)Nc3c(C)cccc3Cl)s2)cc(N2CCN(CCO)CC2)n1">>,
       <<"imatinib",  "Cc1ccc(NC(=O)c2ccc(CN3CCN(C)CC3)cc2)cc1Nc1nccc(-c2cccnc2)n1">>,
       <<"nilotinib", "Cc1cn(-c2cc(NC(=O)c3ccc(C)c(Nc4nccc(-c5cccnc5)n4)c3)cc(C(F)(F)F)c2)cn1">>,
       <<"ponatinib", "Cc1ccc(C(=O)Nc2ccc(CN3CCN(C)CC3)c(C(F)(F)F)c2)cc1C#Cc1cnc2cccnn12">>,
       <<"erlotinib", "C#Cc1cccc(Nc2ncnc3cc(OCCOC)c(OCCOC)cc23)c1">>,
       <<"gefitinib", "COc1cc2ncnc(Nc3ccc(F)c(Cl)c3)c2cc1OCCCN1CCOCC1">> >>

\* tkis as the notebook nb writes it: name -> {'smiles': s} in two notebooks,
\* name -> s in abl_complex_modeling_with_water; the keys keep insertion order.
tkis(nb) ==
    [k \in 1..Len(TkiEntries) |->
        [key   |-> TkiEntries[k][1],
         value |-> IF nb = "abl_complex_modeling_with_water"
                   THEN TkiEntries[k][2]
                   ELSE [smiles |-> TkiEntries[k][2]]]]

\* tkis[key]: the value stored under key
TkisGet(nb, key) ==
    LET k == CHOOSE j \in 1..Len(tkis(nb)) : tkis(nb)[j].key = key
    IN  tkis(nb)[k].value

\* LoopItem with the SMILES string taken from the first entry for every tki
LoopItemFirstSmiles(nb, k) ==
    [tki |-> tkis(nb)[k].key, smiles |-> TkiEntries[1][2]]

\* The loop header and its first line: the name tki and the SMILES string the
\* k-th iteration passes to SmilesLigand.
\*   for tki in tkis.keys(): ... smiles=tkis[tki]['smiles']
\*   for tki, smiles in tkis.items(): ... smiles=smiles
LoopItem(nb, k) ==
    IF nb = "abl_complex_modeling_with_water"
    THEN [tki |-> tkis(nb)[k].key, smiles |-> tkis(nb)[k].value]
    ELSE [tki |-> tkis(nb)[k].key, smiles |-> TkisGet(nb, tkis(nb)[k].key).smiles]

\* base_protein.klifs_kinase_id = 392
KlifsKinaseId == 392

\* SmilesLigand(smiles=..., name=tki), the h-th object built
SmilesLigand(smiles, name, h) == [oid |-> h, name |-> name, smiles |-> smiles]

\* BaseProtein(name='ABL1') followed by base_protein.klifs_kinase_id = 392
BaseProtein(name, h) == [oid |-> h, name |-> name, klifs_kinase_id |-> KlifsKinaseId]

\* ProteinLigandComplex(components=[base_protein, smiles_ligand])
ProteinLigandComplex(components, h) == [oid |-> h, components |-> components]

\* The complex one iteration builds for item, when h objects exist already.
BuildComplex(item, h) ==
    LET smiles_ligand == SmilesLigand(item.smiles, item.tki, h + 1)
        base_protein  == BaseProtein("ABL1", h + 2)
    IN  ProteinLigandComplex(<<base_protein, smiles_ligand>>, h + 3)

\* What featurize may hand back for a complex: the modelled system, with a
\* ligand pose that is right ("+") or not ("-") as in the notebooks' tables.
FeaturizeReturns(complex) ==
    {[of |-> complex.oid, ligand |-> q] : q \in {"+", "-"}}

\* DockIter with the result assigned to system in the first iteration only
DockIterKeepFirst ==
    /\ notebook \in DockingNotebooks
    /\ pc = "cell4"
    /\ tki_i < Len(tkis(notebook))
    /\ LET complex == BuildComplex(LoopItem(notebook, tki_i + 1), heap)
       IN  /\ kinase_ligand_complex' = complex
           /\ \E r \in FeaturizeReturns(complex) :
                /\ system' = IF system = None THEN r ELSE system
                /\ featurize_calls' =
                       Append(featurize_calls,
                              [arg |-> complex, raised |-> FALSE, value |-> r])
    /\ heap' = heap + 3
    /\ tki_i' = tki_i + 1
    /\ pc' = IF tki_i + 1 = Len(tkis(notebook)) THEN "done" ELSE "cell4"
    /\ UNCHANGED <<notebook, atpVars, runVars>>

\* One iteration of the loop of cell 4 in which featurize returns.
DockIter ==
    /\ notebook \in DockingNotebooks
    /\ pc = "cell4"
    /\ tki_i < Len(tkis(notebook))
    /\ LET complex == BuildComplex(LoopItem(notebook, tki_i + 1), heap)
       IN  /\ kinase_ligand_complex' = complex
           /\ \E r \in FeaturizeReturns(complex) :
                /\ system' = r
                /\ featurize_calls' =
                       Append(featurize_calls,
                              [arg |-> complex, raised |-> FALSE, value |-> r])
    /\ heap' = heap + 3
    /\ tki_i' = tki_i + 1
    /\ pc' = IF tki_i + 1 = Len(tkis(notebook)) THEN "done" ELSE "cell4"
    /\ UNCHANGED <<notebook, atpVars, runVars>>

\* DockRaise inside a try/except that goes on with the next ligand
DockRaiseCaught ==
    /\ notebook \in DockingNotebooks
    /\ pc = "cell4"
    /\ tki_i < Len(tkis(notebook))
    /\ LET complex == BuildComplex(LoopItem(notebook, tki_i + 1), heap)
       IN  /\ kinase_ligand_complex' = complex
           /\ featurize_calls' =
                  Append(featurize_calls,
                         [arg |-> complex, raised |-> TRUE, value |-> None])
    /\ heap' = heap + 3
    /\ tki_i' = tki_i + 1
    /\ pc' = IF tki_i + 1 = Len(tkis(notebook)) THEN "done" ELSE "cell4"
    /\ UNCHANGED <<notebook, system, atpVars, runVars>>

\* One iteration of the loop of cell 4 in which featurize raises: nothing
\* catches the exception, the cell stops and system keeps its old value.
DockRaise ==
    /\ notebook \in DockingNotebooks
    /\ pc = "cell4"
    /\ tki_i < Len(tkis(notebook))
    /\ LET complex == BuildComplex(LoopItem(notebook, tki_i + 1), heap)
       IN  /\ kinase_ligand_complex' = complex
           /\ featurize_calls' =
                  Append(featurize_calls,
                         [arg |-> complex, raised |-> TRUE, value |-> None])
    /\ heap' = heap + 3
    /\ tki_i' = tki_i + 1
    /\ pc' = "error"
    /\ UNCHANGED <<notebook, system, atpVars, runVars>>

(***************************************************************************)
(* ATP notebook: the remote KLIFS database                                 *)
(***************************************************************************)
\* Largest number of structures the modelled KLIFS database holds.
MaxRows == 3

\* The columns of the structures table the notebook reads, with the values
\* the model draws them from.
PdbIds == {"1atp", "3qam"}
Alts == {"", "A"}
Chains == {"A", "B"}
Ligands == {"ATP", "STU"}
\* allosteric_ligand is 0 when there is none; a ligand is modelled as 1
AllostericLigands == {0, 1}
QualityScores == {6, 8}
Resolutions == {2, 3}
DFGs == {"in", "out", "na"}
aCHelices == {"in", "out"}

\* The complex text of a structure, as the sequence of the residue names of
\* its atom records.
PdbTexts ==
    { <<"ATP">>,
      <<"ATP", "MG">>,
      <<"MG", "ATP", "MG">>,
      <<"MG", "MG", "ATP", "MG">>,
      <<"MN", "ATP">> }

Columns ==
    {"pdb", "alt", "chain", "ligand", "allosteric_ligand", "quality_score",
     "resolution", "DFG", "aC_helix"}

ColumnValues(c) ==
    CASE c = "pdb" -> PdbIds
      [] c = "alt" -> Alts
      [] c = "chain" -> Chains
      [] c = "ligand" -> Ligands
      [] c = "allosteric_ligand" -> AllostericLigands
      [] c = "quality_score" -> QualityScores
      [] c = "resolution" -> Resolutions
      [] c = "DFG" -> DFGs
      [] c = "aC_helix" -> aCHelices
      [] c = "text" -> PdbTexts

\* A structure whose columns outside a varied group take these values.
DefaultStructure ==
    [pdb |-> "1atp", alt |-> "", chain |-> "A", ligand |-> "ATP",
     allosteric_ligand |-> 0, quality_score |-> 8, resolution |-> 2,
     DFG |-> "in", aC_helix |-> "in", text |-> <<"ATP", "MG">>]

\* The groups of columns a modelled database varies together; the PDB id
\* varies in all of them.
VariedColumns ==
    { {"ligand", "allosteric_ligand"},
      {"DFG", "aC_helix"},
      {"quality_score", "DFG"},
      {"quality_score", "resolution"},
      {"resolution", "alt"},
      {"alt", "chain"},
      {"text"} }

\* All structures that differ from DefaultStructure in pdb and in cols only.
StructuresVarying(cols) ==
    LET Vals(c) == IF c \in cols \cup {"pdb"}
                   THEN ColumnValues(c) ELSE {DefaultStructure[c]}
    IN  [pdb : Vals("pdb"), alt : Vals("alt"), chain : Vals("chain"),
         ligand : Vals("ligand"), allosteric_ligand : Vals("allosteric_ligand"),
         quality_score : Vals("quality_score"), resolution : Vals("resolution"),
         DFG : Vals("DFG"), aC_helix : Vals("aC_helix"), text : Vals("text")]

\* The databases of n structures over one group of varied columns; the
\* structure_ID is the key of the database.
Databases(cols, n) ==
    { [i \in 1..n |->
          [structure_ID |-> i, pdb |-> t[i].pdb, alt |-> t[i].alt,
           chain |-> t[i].chain, ligand |-> t[i].ligand,
           allosteric_ligand |-> t[i].allosteric_ligand,
           quality_score |-> t[i].quality_score, resolution |-> t[i].resolution,
           DFG |-> t[i].DFG, aC_helix |-> t[i].aC_helix, text |-> t[i].text]]
      : t \in [1..n -> StructuresVarying(cols)] }

(***************************************************************************)
(* ATP notebook: the pandas operations the cells use                       *)
(***************************************************************************)
\* structures_from_kinase_ids: the table of all structures, without coordinates
StructuresTable(db) ==
    [i \in 1..Len(db) |->
        [structure_ID |-> db[i].structure_ID, pdb |-> db[i].pdb,
         alt |-> db[i].alt, chain |-> db[i].chain, ligand |-> db[i].ligand,
         allosteric_ligand |-> db[i].allosteric_ligand,
         quality_score |-> db[i].quality_score, resolution |-> db[i].resolution,
         DFG |-> db[i].DFG, aC_helix |-> db[i].aC_helix]]

\* set(df[col])
ColumnSet(df, col) == {df[i][col] : i \in 1..Len(df)}

\* print('Number of PDB entries:', ...) / print('Number of KLIFS entries:', ...)
PrintCounts(df) == [pdb |-> Cardinality(ColumnSet(df, "pdb")), klifs |-> Len(df)]

\* RowsEq with the comparison turned around
RowsEqInverted(df, col, v) == LET Keep(r) == r[col] # v IN SelectSeq(df, Keep)

\* df[df[col] == v]
RowsEq(df, col, v) == LET Keep(r) == r[col] = v IN SelectSeq(df, Keep)

\* RowsNe that drops nothing
RowsNeKeepAll(df, col, v) == df

\* df[df[col] != v]
RowsNe(df, col, v) == LET Keep(r) == r[col] # v IN SelectSeq(df, Keep)

\* the rows of one group of df.groupby('pdb')
Group(df, p) == RowsEq(df, "pdb", p)

\* SingleLigandGroups without the set(): len(x['ligand']) == 1
SingleLigandGroupsRowCount(df) ==
    LET Keep(r) == Len(Group(df, r.pdb)) = 1
    IN  SelectSeq(df, Keep)

\* df.groupby('pdb').filter(lambda x: len(set(x['ligand'])) == 1)
SingleLigandGroups(df) ==
    LET Keep(r) == Cardinality(ColumnSet(Group(df, r.pdb), "ligand")) = 1
    IN  SelectSeq(df, Keep)

\* order of the string values of alt and chain
StrRank(s) == CASE s = "" -> 0 [] s = "A" -> 1 [] s = "B" -> 2

\* SortsBefore without the ascending list: every key ascending
SortsBeforeAscending(a, b) ==
    \/ a.quality_score < b.quality_score
    \/ /\ a.quality_score = b.quality_score
       /\ \/ a.resolution < b.resolution
          \/ /\ a.resolution = b.resolution
             /\ \/ StrRank(a.alt) < StrRank(b.alt)
                \/ /\ a.alt = b.alt
                   /\ StrRank(a.chain) < StrRank(b.chain)

\* sort_values(by=['quality_score', 'resolution', 'alt', 'chain'],
\*             ascending=[False, True, True, True]): a comes strictly before b
SortsBefore(a, b) ==
    \/ a.quality_score > b.quality_score
    \/ /\ a.quality_score = b.quality_score
       /\ \/ a.resolution < b.resolution
          \/ /\ a.resolution = b.resolution
             /\ \/ StrRank(a.alt) < StrRank(b.alt)
                \/ /\ a.alt = b.alt
                   /\ StrRank(a.chain) < StrRank(b.chain)

\* r put into the sorted sequence s behind every row that does not sort after it
RECURSIVE InsertSorted(_, _)
InsertSorted(s, r) ==
    IF s = <<>> THEN <<r>>
    ELSE IF SortsBefore(r, Head(s)) THEN <<r>> \o s
    ELSE <<Head(s)>> \o InsertSorted(Tail(s), r)

\* df.sort_values(...): sorting on several keys is stable in pandas
RECURSIVE SortValues(_)
SortValues(df) ==
    IF df = <<>> THEN <<>>
    ELSE InsertSorted(SortValues(SubSeq(df, 1, Len(df) - 1)), df[Len(df)])

\* GroupHead that keeps every row of a group
GroupHeadAll(df) == df

\* GroupHead without the groupby: df.head(1)
GroupHeadNoGroup(df) == IF df = <<>> THEN <<>> ELSE <<df[1]>>

\* df.groupby('pdb').head(1): the first row of every group, in the order of df
GroupHead(df) ==
    LET First(i) == \A j \in 1..(i - 1) : df[j].pdb # df[i].pdb
        RECURSIVE Take(_)
        Take(i) == IF i > Len(df) THEN <<>>
                   ELSE IF First(i) THEN <<df[i]>> \o Take(i + 1)
                   ELSE Take(i + 1)
    IN  Take(1)

\* df.col.hist(): the number of rows per value
Hist(df, col) ==
    [v \in ColumnSet(df, col) |-> Len(RowsEq(df, col, v))]

\* list(df.pdb)
PdbList(df) == [i \in 1..Len(df) |-> df[i].pdb]

(***************************************************************************)
(* ATP notebook: files and coordinates                                     *)
(***************************************************************************)
\* Path("~/data/kinases/atp") and the four directories below it (cells 12, 13)
PathAtp == <<"~", "data", "kinases", "atp">>
PathNoMg == PathAtp \o <<"no_mg">>
PathOneMg == PathAtp \o <<"one_mg">>
PathTwoMg == PathAtp \o <<"two_mg">>
PathMoreMg == PathAtp \o <<"more_mg">>

\* Path.expanduser(): a leading ~ becomes the home directory
ExpandUser(path) ==
    IF path # <<>> /\ Head(path) = "~" THEN <<"home", "david">> \o Tail(path)
    ELSE path

\* the notebook variables directory, directory_no_mg, ...
directory == ExpandUser(PathAtp)
directory_no_mg == ExpandUser(PathNoMg)
directory_one_mg == ExpandUser(PathOneMg)
directory_two_mg == ExpandUser(PathTwoMg)
directory_more_mg == ExpandUser(PathMoreMg)

\* Path.mkdir(parents=True, exist_ok=True): the directory and all its parents
Mkdir(ds, d) == ds \cup {SubSeq(d, 1, k) : k \in 1..Len(d)}

\* d / f"{row['pdb']}.pdb"
PdbPath(d, row) == Append(d, <<row.pdb, ".pdb">>)

\* the directory a path lies in
Parent(path) == SubSeq(path, 1, Len(path) - 1)

\* open(path, 'w') succeeds only in a directory that exists
CanWrite(ds, path) == Parent(path) \in ds

\* WriteFile with open(path, 'a'): the text is put behind what the file holds
WriteFileAppend(fs, path, text) ==
    [q \in DOMAIN fs \cup {path} |->
        IF q = path THEN (IF path \in DOMAIN fs THEN fs[path] \o text ELSE text)
        ELSE fs[q]]

\* with open(path, 'w') as wf: wf.write(text): creates or overwrites the file
WriteFile(fs, path, text) ==
    [q \in DOMAIN fs \cup {path} |-> IF q = path THEN text ELSE fs[q]]

\* klifs_utils.remote.coordinates.complex._complex_pdb_text(structure_ID)
ComplexPdbText(db, structure_ID) ==
    LET i == CHOOSE j \in 1..Len(db) : db[j].structure_ID = structure_ID
    IN  db[i].text

\* NumMg that counts every metal ion
RECURSIVE NumMgAllMetals(_)
NumMgAllMetals(text) ==
    IF text = <<>> THEN 0
    ELSE (IF Head(text) \in {"MG", "MN"} THEN 1 ELSE 0) + NumMgAllMetals(Tail(text))

\* len(mda.Universe(path).select_atoms("resname MG")) for the text of the file
RECURSIVE NumMg(_)
NumMg(text) ==
    IF text = <<>> THEN 0
    ELSE (IF Head(text) = "MG" THEN 1 ELSE 0) + NumMg(Tail(text))

\* Bucket without the last branch: two or more ions go to two_mg
BucketTwoOrMore(num_mg) ==
    IF num_mg = 0 THEN "no_mg"
    ELSE IF num_mg = 1 THEN "one_mg"
    ELSE "two_mg"

\* the branch of the if/elif chain of cell 13 that num_mg takes
Bucket(num_mg) ==
    IF num_mg = 0 THEN "no_mg"
    ELSE IF num_mg = 1 THEN "one_mg"
    ELSE IF num_mg = 2 THEN "two_mg"
    ELSE "more_mg"

\* BucketDirectory with the path of the two_mg branch copied from the one above
BucketDirectoryCopied(b) ==
    CASE b = "no_mg" -> directory_no_mg
      [] b = "one_mg" -> directory_one_mg
      [] b = "two_mg" -> directory_one_mg
      [] b = "more_mg" -> directory_more_mg

\* the directory cell 13 assigns to path in that branch
BucketDirectory(b) ==
    CASE b = "no_mg" -> directory_no_mg
      [] b = "one_mg" -> directory_one_mg
      [] b = "two_mg" -> directory_two_mg
      [] b = "more_mg" -> directory_more_mg

\* kinase_df[kinase_df.aC_helix == "in"], the selection cells 12 and 13 iterate
SelectedRows(df) == RowsEq(df, "aC_helix", "in")

(***************************************************************************)
(* ATP notebook: the cells                                                 *)
(***************************************************************************)
AtpNotebook == "ATP_and_kinase_conformations"

NothingShown ==
    [cell2 |-> None, cell3 |-> None, cell4 |-> None, cell5 |-> None,
     cell6 |-> None, cell7 |-> None, cell8 |-> None, cell10 |-> None,
     cell11 |-> None, cell14 |-> None]

AtpCell(c) == notebook = AtpNotebook /\ pc = c

\* cell 2: retrieve kinase structures
Cell2 ==
    /\ AtpCell("cell2")
    /\ kinase_df' = StructuresTable(klifs)
    /\ shown' = [shown EXCEPT !.cell2 = PrintCounts(kinase_df')]
    /\ pc' = "cell3"
    /\ UNCHANGED <<notebook, runVars, dockVars, klifs, dirs, files, loop_rows, row_i,
                   fetched, no_mg, one_mg, two_mg, more_mg>>

\* cell 3: filter for entries with ATP in the binding pocket
Cell3 ==
    /\ AtpCell("cell3")
    /\ kinase_df' = RowsEq(kinase_df, "ligand", "ATP")
    /\ shown' = [shown EXCEPT !.cell3 = PrintCounts(kinase_df')]
    /\ pc' = "cell4"
    /\ UNCHANGED <<notebook, runVars, dockVars, klifs, dirs, files, loop_rows, row_i,
                   fetched, no_mg, one_mg, two_mg, more_mg>>

\* cell 4: filter for entries with a single orthosteric ligand
Cell4 ==
    /\ AtpCell("cell4")
    /\ kinase_df' = SingleLigandGroups(kinase_df)
    /\ shown' = [shown EXCEPT !.cell4 = PrintCounts(kinase_df')]
    /\ pc' = "cell5"
    /\ UNCHANGED <<notebook, runVars, dockVars, klifs, dirs, files, loop_rows, row_i,
                   fetched, no_mg, one_mg, two_mg, more_mg>>

\* cell 5: filter for entries that do not contain an allosteric ligand
Cell5 ==
    /\ AtpCell("cell5")
    /\ kinase_df' = RowsEq(kinase_df, "allosteric_ligand", 0)
    /\ shown' = [shown EXCEPT !.cell5 = PrintCounts(kinase_df')]
    /\ pc' = "cell6"
    /\ UNCHANGED <<notebook, runVars, dockVars, klifs, dirs, files, loop_rows, row_i,
                   fetched, no_mg, one_mg, two_mg, more_mg>>

\* Cell6 with the DFG filter of cell 9 ahead of the selection of the best row
Cell6AfterDfgFilter ==
    /\ AtpCell("cell6")
    /\ kinase_df' = GroupHead(SortValues(RowsNe(kinase_df, "DFG", "na")))
    /\ shown' = [shown EXCEPT !.cell6 = PrintCounts(kinase_df')]
    /\ pc' = "cell7"
    /\ UNCHANGED <<notebook, runVars, dockVars, klifs, dirs, files, loop_rows, row_i,
                   fetched, no_mg, one_mg, two_mg, more_mg>>

\* cell 6: sort, then keep the first entry of every PDB id
Cell6 ==
    /\ AtpCell("cell6")
    /\ kinase_df' = GroupHead(SortValues(kinase_df))
    /\ shown' = [shown EXCEPT !.cell6 = PrintCounts(kinase_df')]
    /\ pc' = "cell7"
    /\ UNCHANGED <<notebook, runVars, dockVars, klifs, dirs, files, loop_rows, row_i,
                   fetched, no_mg, one_mg, two_mg, more_mg>>

\* cell 7: kinase_df.DFG.hist()
Cell7 ==
    /\ AtpCell("cell7")
    /\ shown' = [shown EXCEPT !.cell7 =
                    [read |-> kinase_df, out |-> Hist(kinase_df, "DFG")]]
    /\ pc' = "cell8"
    /\ UNCHANGED <<notebook, runVars, dockVars, klifs, kinase_df, dirs, files, loop_rows,
                   row_i, fetched, no_mg, one_mg, two_mg, more_mg>>

\* cell 8: kinase_df[kinase_df.DFG == 'na']['pdb']
Cell8 ==
    /\ AtpCell("cell8")
    /\ LET rows == RowsEq(kinase_df, "DFG", "na")
       IN  shown' = [shown EXCEPT !.cell8 = [read |-> rows, out |-> PdbList(rows)]]
    /\ pc' = "cell9"
    /\ UNCHANGED <<notebook, runVars, dockVars, klifs, kinase_df, dirs, files, loop_rows,
                   row_i, fetched, no_mg, one_mg, two_mg, more_mg>>

\* cell 9: kinase_df = kinase_df[kinase_df.DFG != 'na']
Cell9 ==
    /\ AtpCell("cell9")
    /\ kinase_df' = RowsNe(kinase_df, "DFG", "na")
    /\ pc' = "cell10"
    /\ UNCHANGED <<notebook, runVars, dockVars, klifs, shown, dirs, files, loop_rows,
                   row_i, fetched, no_mg, one_mg, two_mg, more_mg>>

\* cell 10: kinase_df.aC_helix.hist()
Cell10 ==
    /\ AtpCell("cell10")
    /\ shown' = [shown EXCEPT !.cell10 =
                    [read |-> kinase_df, out |-> Hist(kinase_df, "aC_helix")]]
    /\ pc' = "cell11"
    /\ UNCHANGED <<notebook, runVars, dockVars, klifs, kinase_df, dirs, files, loop_rows,
                   row_i, fetched, no_mg, one_mg, two_mg, more_mg>>

\* cell 11: print(list(kinase_df[kinase_df.aC_helix != "in"].pdb))
Cell11 ==
    /\ AtpCell("cell11")
    /\ LET rows == RowsNe(kinase_df, "aC_helix", "in")
       IN  shown' = [shown EXCEPT !.cell11 = [read |-> rows, out |-> PdbList(rows)]]
    /\ pc' = "cell12"
    /\ UNCHANGED <<notebook, runVars, dockVars, klifs, kinase_df, dirs, files, loop_rows,
                   row_i, fetched, no_mg, one_mg, two_mg, more_mg>>

\* cell 12, up to the loop header: make the directory, take the selection
Cell12 ==
    /\ AtpCell("cell12")
    /\ dirs' = Mkdir(dirs, directory)
    /\ loop_rows' = SelectedRows(kinase_df)
    /\ row_i' = 0
    /\ pc' = IF loop_rows' = <<>> THEN "cell13" ELSE "cell12_loop"
    /\ UNCHANGED <<notebook, runVars, dockVars, klifs, kinase_df, shown, files, fetched,
                   no_mg, one_mg, two_mg, more_mg>>

\* Cell12Iter that leaves a file alone that is there already
Cell12IterCached ==
    /\ AtpCell("cell12_loop")
    /\ LET row == loop_rows[row_i + 1]
           pdb_text == ComplexPdbText(klifs, row.structure_ID)
           path == PdbPath(directory, row)
           write == CanWrite(dirs, path) /\ path \notin DOMAIN files
       IN  /\ fetched' = Append(fetched,
                  [cell |-> 12, structure_ID |-> row.structure_ID,
                   raised |-> FALSE, text |-> pdb_text, read |-> NoPath,
                   wrote |-> IF write THEN path ELSE NoPath])
           /\ files' = IF write THEN WriteFile(files, path, pdb_text) ELSE files
           /\ pc' = IF ~CanWrite(dirs, path) THEN "error"
                    ELSE IF row_i + 1 = Len(loop_rows) THEN "cell13"
                    ELSE "cell12_loop"
    /\ row_i' = row_i + 1
    /\ UNCHANGED <<notebook, runVars, dockVars, klifs, kinase_df, shown, dirs, loop_rows,
                   no_mg, one_mg, two_mg, more_mg>>

\* cell 12, one iteration: fetch the complex text and write it
Cell12Iter ==
    /\ AtpCell("cell12_loop")
    /\ LET row == loop_rows[row_i + 1]
           pdb_text == ComplexPdbText(klifs, row.structure_ID)
           path == PdbPath(directory, row)
       IN  /\ fetched' = Append(fetched,
                  [cell |-> 12, structure_ID |-> row.structure_ID,
                   raised |-> FALSE, text |-> pdb_text, read |-> NoPath,
                   wrote |-> IF CanWrite(dirs, path) THEN path ELSE NoPath])
           /\ IF CanWrite(dirs, path)
              THEN /\ files' = WriteFile(files, path, pdb_text)
                   /\ pc' = IF row_i + 1 = Len(loop_rows) THEN "cell13"
                            ELSE "cell12_loop"
              ELSE /\ files' = files
                   /\ pc' = "error"
    /\ row_i' = row_i + 1
    /\ UNCHANGED <<notebook, runVars, dockVars, klifs, kinase_df, shown, dirs, loop_rows,
                   no_mg, one_mg, two_mg, more_mg>>

\* Cell12Raise inside a try/except that goes on with the next row
Cell12RaiseSkip ==
    /\ AtpCell("cell12_loop")
    /\ LET row == loop_rows[row_i + 1]
       IN  fetched' = Append(fetched,
                  [cell |-> 12, structure_ID |-> row.structure_ID,
                   raised |-> TRUE, text |-> <<>>, read |-> NoPath,
                   wrote |-> NoPath])
    /\ row_i' = row_i + 1
    /\ pc' = IF row_i + 1 = Len(loop_rows) THEN "cell13" ELSE "cell12_loop"
    /\ UNCHANGED <<notebook, runVars, dockVars, klifs, kinase_df, shown, dirs, files,
                   loop_rows, no_mg, one_mg, two_mg, more_mg>>

\* cell 12, one iteration in which the remote call raises
Cell12Raise ==
    /\ AtpCell("cell12_loop")
    /\ LET row == loop_rows[row_i + 1]
       IN  fetched' = Append(fetched,
                  [cell |-> 12, structure_ID |-> row.structure_ID,
                   raised |-> TRUE, text |-> <<>>, read |-> NoPath,
                   wrote |-> NoPath])
    /\ row_i' = row_i + 1
    /\ pc' = "error"
    /\ UNCHANGED <<notebook, runVars, dockVars, klifs, kinase_df, shown, dirs, files,
                   loop_rows, no_mg, one_mg, two_mg, more_mg>>

\* Cell13 that empties the four bucket directories before it fills them
Cell13CleanBuckets ==
    /\ AtpCell("cell13")
    /\ dirs' = Mkdir(Mkdir(Mkdir(Mkdir(dirs, directory_no_mg), directory_one_mg),
                           directory_two_mg), directory_more_mg)
    /\ files' = [q \in {x \in DOMAIN files : Parent(x) = directory} |-> files[q]]
    /\ no_mg' = <<>>
    /\ one_mg' = <<>>
    /\ two_mg' = <<>>
    /\ more_mg' = <<>>
    /\ loop_rows' = SelectedRows(kinase_df)
    /\ row_i' = 0
    /\ pc' = IF loop_rows' = <<>> THEN "cell14" ELSE "cell13_loop"
    /\ UNCHANGED <<notebook, runVars, dockVars, klifs, kinase_df, shown, fetched>>

\* cell 13, up to the loop header: make the four directories, empty the four
\* lists, take the selection
Cell13 ==
    /\ AtpCell("cell13")
    /\ dirs' = Mkdir(Mkdir(Mkdir(Mkdir(dirs, directory_no_mg), directory_one_mg),
                           directory_two_mg), directory_more_mg)
    /\ no_mg' = <<>>
    /\ one_mg' = <<>>
    /\ two_mg' = <<>>
    /\ more_mg' = <<>>
    /\ loop_rows' = SelectedRows(kinase_df)
    /\ row_i' = 0
    /\ pc' = IF loop_rows' = <<>> THEN "cell14" ELSE "cell13_loop"
    /\ UNCHANGED <<notebook, runVars, dockVars, klifs, kinase_df, shown, files, fetched>>

\* the four lists after row['pdb'] is appended to the list of bucket b
AppendToBucket(b, pdb) ==
    [no_mg |-> IF b = "no_mg" THEN Append(no_mg, pdb) ELSE no_mg,
     one_mg |-> IF b = "one_mg" THEN Append(one_mg, pdb) ELSE one_mg,
     two_mg |-> IF b = "two_mg" THEN Append(two_mg, pdb) ELSE two_mg,
     more_mg |-> IF b = "more_mg" THEN Append(more_mg, pdb) ELSE more_mg]

\* cell 13, one iteration: read the file of cell 12, count its MG atoms, append
\* the PDB id to a list, then fetch the text (raises or not) and write it
Cell13Iter ==
    /\ AtpCell("cell13_loop")
    /\ LET row == loop_rows[row_i + 1]
           read_path == PdbPath(directory, row)
       IN  IF read_path \notin DOMAIN files
           THEN \* mda.Universe(path) raises
                /\ pc' = "error"
                /\ UNCHANGED <<files, fetched, no_mg, one_mg, two_mg, more_mg>>
           ELSE LET num_mg == NumMg(files[read_path])
                    b == Bucket(num_mg)
                    lists == AppendToBucket(b, row.pdb)
                    path == PdbPath(BucketDirectory(b), row)
                IN  /\ no_mg' = lists.no_mg
                    /\ one_mg' = lists.one_mg
                    /\ two_mg' = lists.two_mg
                    /\ more_mg' = lists.more_mg
                    /\ \E raises \in BOOLEAN :
                         /\ fetched' = Append(fetched,
                                [cell |-> 13, structure_ID |-> row.structure_ID,
                                 raised |-> raises,
                                 text |-> IF raises THEN <<>>
                                          ELSE ComplexPdbText(klifs, row.structure_ID),
                                 read |-> read_path,
                                 wrote |-> IF ~raises /\ CanWrite(dirs, path)
                                           THEN path ELSE NoPath])
                         /\ IF ~raises /\ CanWrite(dirs, path)
                            THEN /\ files' = WriteFile(files, path,
                                        ComplexPdbText(klifs, row.structure_ID))
                                 /\ pc' = IF row_i + 1 = Len(loop_rows)
                                          THEN "cell14" ELSE "cell13_loop"
                            ELSE /\ files' = files
                                 /\ pc' = "error"
    /\ row_i' = row_i + 1
    /\ UNCHANGED <<notebook, runVars, dockVars, klifs, kinase_df, shown, dirs, loop_rows>>

\* cell 14: print the four lists with their lengths
Cell14 ==
    /\ AtpCell("cell14")
    /\ shown' = [shown EXCEPT !.cell14 =
                    [no_mg |-> <<Len(no_mg), no_mg>>,
                     one_mg |-> <<Len(one_mg), one_mg>>,
                     two_mg |-> <<Len(two_mg), two_mg>>,
                     more_mg |-> <<Len(more_mg), more_mg>>]]
    /\ pc' = "done"
    /\ UNCHANGED <<notebook, runVars, dockVars, klifs, kinase_df, dirs, files, loop_rows,
                   row_i, fetched, no_mg, one_mg, two_mg, more_mg>>

(***************************************************************************)
(* Specification                                                           *)
(***************************************************************************)
\* A docking notebook after cells 1-3 (imports, tkis, docking_featurizer).
InitDocking ==
    /\ notebook \in DockingNotebooks
    /\ pc = "cell4"
    /\ tki_i = 0
    /\ heap = 0
    /\ kinase_ligand_complex = None
    /\ system = None
    /\ featurize_calls = <<>>
    /\ klifs = <<>>
    /\ kinase_df = <<>>
    /\ shown = NothingShown
    /\ dirs = {}
    /\ files = <<>>
    /\ loop_rows = <<>>
    /\ row_i = 0
    /\ fetched = <<>>
    /\ no_mg = <<>> /\ one_mg = <<>> /\ two_mg = <<>> /\ more_mg = <<>>
    /\ run = 1
    /\ updates = 0
    /\ changed = FALSE
    /\ prev = NoRun

\* The ATP notebook after cell 1 (imports), against some KLIFS database and
\* with nothing below the home directory.
InitAtp ==
    /\ notebook = AtpNotebook
    /\ pc = "cell2"
    /\ tki_i = 0
    /\ heap = 0
    /\ kinase_ligand_complex = None
    /\ system = None
    /\ featurize_calls = <<>>
    /\ \E cols \in VariedColumns, n \in 1..MaxRows : klifs \in Databases(cols, n)
    /\ kinase_df = <<>>
    /\ shown = NothingShown
    /\ dirs = {<<"home">>, <<"home", "david">>}
    /\ files = <<>>
    /\ loop_rows = <<>>
    /\ row_i = 0
    /\ fetched = <<>>
    /\ no_mg = <<>> /\ one_mg = <<>> /\ two_mg = <<>> /\ more_mg = <<>>
    /\ run = 1
    /\ updates = 0
    /\ changed = FALSE
    /\ prev = NoRun

Init == InitDocking \/ InitAtp

Next ==
    \/ DockIter
    \/ DockRaise
    \/ Cell2
    \/ Cell3
    \/ Cell4
    \/ Cell5
    \/ Cell6
    \/ Cell7
    \/ Cell8
    \/ Cell9
    \/ Cell10
    \/ Cell11
    \/ Cell12
    \/ Cell12Iter
    \/ Cell12Raise
    \/ Cell13
    \/ Cell13Iter
    \/ Cell14

Spec == Init /\ [][Next]_vars

(***************************************************************************)
(* The ATP notebook run again, against a remote database that may change   *)
(***************************************************************************)
\* Largest number of runs of the notebook on one file system.
MaxRuns == 2

\* Largest number of changes of the remote database.
MaxUpdates == 1

\* Restart and run all: the notebook starts again from cell 1 with an empty
\* namespace; the file system and the remote database are what they are.
Rerun ==
    /\ notebook = AtpNotebook
    /\ pc \in {"done", "error"}
    /\ run < MaxRuns
    /\ prev' = [pc |-> pc, kinase_df |-> kinase_df, no_mg |-> no_mg,
                one_mg |-> one_mg, two_mg |-> two_mg, more_mg |-> more_mg,
                files |-> files, changed |-> changed]
    /\ run' = run + 1
    /\ changed' = FALSE
    /\ pc' = "cell2"
    /\ kinase_df' = <<>>
    /\ shown' = NothingShown
    /\ loop_rows' = <<>>
    /\ row_i' = 0
    /\ fetched' = <<>>
    /\ no_mg' = <<>>
    /\ one_mg' = <<>>
    /\ two_mg' = <<>>
    /\ more_mg' = <<>>
    /\ UNCHANGED <<notebook, dockVars, klifs, dirs, files, updates>>

\* The remote database replaces the complex text of one structure.  A change
\* is modelled where the notebook can tell it from a change at another time:
\* between the two loops that fetch the text and after a run.
RemoteUpdate ==
    /\ notebook = AtpNotebook
    /\ pc \in {"cell13", "done"}
    /\ updates < MaxUpdates
    /\ \E i \in 1..Len(klifs) :
          \E t \in PdbTexts \ {klifs[i].text} :
             klifs' = [klifs EXCEPT ![i].text = t]
    /\ updates' = updates + 1
    /\ changed' = TRUE
    /\ UNCHANGED <<notebook, pc, dockVars, kinase_df, shown, dirs, files,
                   loop_rows, row_i, fetched, no_mg, one_mg, two_mg, more_mg,
                   run, prev>>

\* The first run of the ATP notebook, against a database whose structures
\* differ in PDB id only: their complex texts come to differ by RemoteUpdate.
InitRuns ==
    /\ InitAtp
    /\ \E n \in 1..MaxRows : klifs \in Databases({}, n)

NextRuns ==
    \/ Cell2
    \/ Cell3
    \/ Cell4
    \/ Cell5
    \/ Cell6
    \/ Cell7
    \/ Cell8
    \/ Cell9
    \/ Cell10
    \/ Cell11
    \/ Cell12
    \/ Cell12Iter
    \/ Cell12Raise
    \/ Cell13
    \/ Cell13Iter
    \/ Cell14
    \/ Rerun
    \/ RemoteUpdate

SpecRuns == InitRuns /\ [][NextRuns]_vars

(***************************************************************************)
(* Properties                                                              *)
(***************************************************************************)
Docking == notebook \in DockingNotebooks
Atp == notebook = AtpNotebook

\* the positions of the ATP notebook in running order
AtpOrder ==
    <<"cell2", "cell3", "cell4", "cell5", "cell6", "cell7", "cell8", "cell9",
      "cell10", "cell11", "cell12", "cell12_loop", "cell13", "cell13_loop",
      "cell14", "done">>

AtpPos(c) == CHOOSE k \in 1..Len(AtpOrder) : AtpOrder[k] = c

\* the ATP notebook has run cell c to its end (an error is only raised in the
\* loops of cells 12 and 13)
HasRun(c) == Atp /\ (pc = "error" \/ AtpPos(pc) > AtpPos(c))

Rows(df) == {df[i] : i \in 1..Len(df)}

\* number of positions of the list l that hold x
Occurrences(l, x) == Cardinality({i \in 1..Len(l) : l[i] = x})

\* the names of the eight ligands, in the order of tkis
TkiNames ==
    <<"axitinib", "bosutinib", "dasatinib", "imatinib", "nilotinib",
      "ponatinib", "erlotinib", "gefitinib">>

\* the object ids of a complex and of its components
Oids(complex) ==
    {complex.oid} \cup {complex.components[j].oid : j \in 1..Len(complex.components)}

\* C1: in every docking notebook the k-th featurize call is the call for the
\* k-th ligand of tkis: its complex has two components, the protein ABL1 with
\* klifs_kinase_id 392 and the ligand with that entry's name and SMILES, and
\* is built of objects no earlier call got; a loop that ended without a raise
\* has made exactly eight calls, one per ligand.
C1_FeaturizeOncePerLigand ==
    Docking =>
        /\ Len(featurize_calls) = tki_i
        /\ tki_i <= Len(TkiNames)
        /\ pc = "done" => Len(featurize_calls) = Len(TkiNames)
        /\ \A k \in 1..Len(featurize_calls) :
             LET c == featurize_calls[k].arg
             IN  /\ Len(c.components) = 2
                 /\ c.components[1].name = "ABL1"
                 /\ c.components[1].klifs_kinase_id = 392
                 /\ c.components[2].name = TkiNames[k]
                 /\ c.components[2].name = TkiEntries[k][1]
                 /\ c.components[2].smiles = TkiEntries[k][2]
                 /\ Cardinality(Oids(c)) = 3
                 /\ \A j \in 1..(k - 1) :
                      Oids(c) \cap Oids(featurize_calls[j].arg) = {}

C1_Witness ==
    /\ notebook = "abl_complex_modeling_with_water"
    /\ pc = "done"
    /\ Len(featurize_calls) = 8
    /\ \A k \in 1..8 : ~featurize_calls[k].raised

\* the ligands (by position in tkis) whose featurize outcome a notebook
\* variable holds: system is the only variable that is assigned one
OutcomeHeldFor ==
    {k \in 1..Len(featurize_calls) :
        /\ ~featurize_calls[k].raised
        /\ system # None
        /\ system.of = featurize_calls[k].arg.oid}

\* C2 as stated: after the docking loop has finished the program state holds
\* one outcome for each of the eight ligands.
C2_OutcomeForEveryLigand ==
    (Docking /\ pc = "done") => OutcomeHeldFor = 1..Len(TkiNames)

\* C2 as amended: after the docking loop has finished, system holds the value
\* the last featurize call (gefitinib) returned and no notebook variable holds
\* the outcome of any of the seven earlier calls.
C2_OnlyLastOutcomeHeld ==
    (Docking /\ pc = "done") =>
        /\ system = featurize_calls[Len(TkiNames)].value
        /\ featurize_calls[Len(TkiNames)].arg.components[2].name = "gefitinib"
        /\ OutcomeHeldFor = {Len(TkiNames)}

C2_Witness ==
    /\ Docking
    /\ pc = "done"
    /\ system.ligand = "+"
    /\ featurize_calls[6].value.ligand = "-"

\* C3 as stated: every row the loops of cells 12 and 13 iterate has DFG 'in'
\* and aC_helix 'in', and every PDB id of two_mg belongs to such a row.
C3_SelectedRowsActive ==
    Atp =>
        /\ \A r \in Rows(loop_rows) : r.DFG = "in" /\ r.aC_helix = "in"
        /\ \A i \in 1..Len(two_mg) :
             \E r \in Rows(loop_rows) :
                r.pdb = two_mg[i] /\ r.DFG = "in" /\ r.aC_helix = "in"

\* the PDB ids that have entries with more than one ligand in the retrieved table
MultiLigandPdbs ==
    {p \in ColumnSet(klifs, "pdb") :
        Cardinality({r.ligand : r \in {x \in Rows(klifs) : x.pdb = p}}) > 1}

\* C4 as stated: once cell 4 has run, no row is left of a PDB id whose entries
\* in the retrieved table carry more than one ligand.
C4_MultiLigandPdbsRemoved ==
    HasRun("cell4") => \A r \in Rows(kinase_df) : r.pdb \notin MultiLigandPdbs

\* C5: the step of cell 6 leaves exactly one row per PDB id: no PDB id is in
\* two rows of the result, the result has the PDB ids of the table before the
\* step, and the two numbers the cell prints are equal.
C5_OneRowPerPdb ==
    [][Cell6 =>
          /\ \A i, j \in 1..Len(kinase_df') :
                kinase_df'[i].pdb = kinase_df'[j].pdb => i = j
          /\ ColumnSet(kinase_df', "pdb") = ColumnSet(kinase_df, "pdb")
          /\ shown'.cell6.klifs = Len(kinase_df')
          /\ shown'.cell6.klifs = shown'.cell6.pdb]_vars

C5_Witness ==
    /\ Atp
    /\ pc = "cell7"
    /\ shown.cell5.klifs = 3
    /\ shown.cell6.klifs = 2

\* r is at least as good as s in the order the claim C6 states: higher
\* quality_score, then lower resolution, then smaller alt, then smaller chain
AtLeastAsGood(r, s) ==
    LET key(x) == <<0 - x.quality_score, x.resolution, StrRank(x.alt),
                    StrRank(x.chain)>>
        differ == {k \in 1..4 : key(r)[k] # key(s)[k]}
        first == CHOOSE k \in differ : \A m \in differ : k <= m
    IN  differ = {} \/ key(r)[first] < key(s)[first]

\* C6: the row cell 6 keeps for a PDB id is a row of that PDB id that no other
\* row of the PDB id beats: highest quality_score, then lowest resolution,
\* then smallest alt, then smallest chain.
C6_BestRowKept ==
    [][Cell6 =>
          \A k \in Rows(kinase_df') :
             /\ k \in Rows(kinase_df)
             /\ \A r \in Rows(kinase_df) : r.pdb = k.pdb => AtLeastAsGood(k, r)]_vars

C6_Witness ==
    /\ Atp
    /\ pc = "cell7"
    /\ Len(kinase_df) = 1
    /\ \E a, b \in Rows(klifs) :
         /\ a.pdb = b.pdb
         /\ a.quality_score = b.quality_score
         /\ a.resolution < b.resolution
         /\ StrRank(a.alt) > StrRank(b.alt)
         /\ kinase_df[1].structure_ID = a.structure_ID

\* C7: once cell 3 has run every row of kinase_df has ligand 'ATP', and once
\* cell 5 has run every row has allosteric_ligand 0, in every later state.
C7_FiltersStay ==
    /\ HasRun("cell3") => \A r \in Rows(kinase_df) : r.ligand = "ATP"
    /\ HasRun("cell5") => \A r \in Rows(kinase_df) : r.allosteric_ligand = 0

C7_Witness ==
    /\ Atp
    /\ pc = "done"
    /\ kinase_df # <<>>
    /\ \E r \in Rows(klifs) : r.ligand # "ATP"
    /\ \E r \in Rows(klifs) : r.allosteric_ligand # 0

\* C8: once cell 9 has run, kinase_df has no row with DFG 'na', and neither
\* the histogram of cell 10, the listing of cell 11 nor the loops of cells 12
\* and 13 read such a row.
C8_NoNaRows ==
    HasRun("cell9") =>
        /\ \A r \in Rows(kinase_df) : r.DFG # "na"
        /\ shown.cell10 # None => \A r \in Rows(shown.cell10.read) : r.DFG # "na"
        /\ shown.cell11 # None => \A r \in Rows(shown.cell11.read) : r.DFG # "na"
        /\ \A r \in Rows(loop_rows) : r.DFG # "na"

C8_Witness ==
    /\ Atp
    /\ pc = "done"
    /\ shown.cell8.out # <<>>
    /\ loop_rows # <<>>

\* number of atoms with residue name MG in a text
MgAtoms(text) == Cardinality({i \in 1..Len(text) : text[i] = "MG"})

\* the list a number of MG atoms belongs to
ListOf(n) ==
    CASE n = 0 -> no_mg
      [] n = 1 -> one_mg
      [] n = 2 -> two_mg
      [] n > 2 -> more_mg

\* the base directory and the four bucket directories, written out
BaseDir == <<"home", "david", "data", "kinases", "atp">>
FileIn(d, pdb) == Append(d, <<pdb, ".pdb">>)

\* C9: while and after the loop of cell 13 runs, every row it has taken has
\* its PDB id in exactly one of the four lists, once, and that list is the
\* one for the number of MG atoms in the row's file of the base directory
\* (0, 1, 2, more than 2); rows not yet taken are in no list; after the loop
\* the four lengths sum to the number of rows with aC_helix 'in'.
C9_BucketsPartition ==
    (Atp /\ pc \in {"cell13_loop", "cell14", "done"}) =>
        /\ loop_rows = SelectSeq(kinase_df, LAMBDA r : r.aC_helix = "in")
        /\ \A i \in 1..Len(loop_rows) :
             LET pdb == loop_rows[i].pdb
                 n == MgAtoms(files[FileIn(BaseDir, pdb)])
                 total == Occurrences(no_mg, pdb) + Occurrences(one_mg, pdb)
                          + Occurrences(two_mg, pdb) + Occurrences(more_mg, pdb)
             IN  IF i <= row_i
                 THEN total = 1 /\ Occurrences(ListOf(n), pdb) = 1
                 ELSE total = 0
        /\ Len(no_mg) + Len(one_mg) + Len(two_mg) + Len(more_mg) = row_i
        /\ pc # "cell13_loop" => row_i = Len(loop_rows)

C9_Witness ==
    /\ Atp
    /\ pc = "done"
    /\ Len(no_mg) = 1
    /\ Len(more_mg) = 1
    /\ \E i \in 1..Len(files[FileIn(BaseDir, no_mg[1])]) :
          files[FileIn(BaseDir, no_mg[1])][i] = "MN"

\* the bucket directory of each list, written out
DirOfList ==
    [no_mg |-> Append(BaseDir, "no_mg"), one_mg |-> Append(BaseDir, "one_mg"),
     two_mg |-> Append(BaseDir, "two_mg"), more_mg |-> Append(BaseDir, "more_mg")]

ListNamed(b) ==
    CASE b = "no_mg" -> no_mg
      [] b = "one_mg" -> one_mg
      [] b = "two_mg" -> two_mg
      [] b = "more_mg" -> more_mg

\* C10: every file lies in a directory that exists, the base directory exists
\* while the loop of cell 12 runs and the four bucket directories while the
\* loop of cell 13 runs; after both loops have ended without a failure every
\* row with aC_helix 'in' has <pdb>.pdb in the base directory and in the
\* bucket directory of the list that holds its PDB id.
C10_FilesWritten ==
    Atp =>
        /\ \A path \in DOMAIN files : SubSeq(path, 1, Len(path) - 1) \in dirs
        /\ pc = "cell12_loop" => BaseDir \in dirs
        /\ pc = "cell13_loop" =>
              \A b \in DOMAIN DirOfList : DirOfList[b] \in dirs
        /\ pc \in {"cell14", "done"} =>
              \A r \in Rows(kinase_df) :
                 r.aC_helix = "in" =>
                    /\ FileIn(BaseDir, r.pdb) \in DOMAIN files
                    /\ \E b \in DOMAIN DirOfList :
                         /\ Occurrences(ListNamed(b), r.pdb) = 1
                         /\ FileIn(DirOfList[b], r.pdb) \in DOMAIN files

C10_Witness ==
    /\ Atp
    /\ pc = "done"
    /\ Len(loop_rows) = 2
    /\ Len(two_mg) = 1
    /\ Len(one_mg) = 1

\* after holds exactly the rows of before that satisfy P, each once and with
\* every column as it was
ExactlyTheRows(after, before, P(_)) ==
    /\ Rows(after) = {r \in Rows(before) : P(r)}
    /\ Len(after) = Cardinality(Rows(after))

\* neither of the two numbers the cells print is larger for after than for before
CountsNotLarger(after, before) ==
    /\ Len(after) <= Len(before)
    /\ Cardinality({r.pdb : r \in Rows(after)})
          <= Cardinality({r.pdb : r \in Rows(before)})

\* C11: every filtering step is a plain filter.  The ATP filter, the
\* single-ligand filter, the allosteric filter and the DFG filter return
\* exactly the rows of their input that satisfy the step's predicate; the
\* group-head step returns rows of its input only; no step changes a column
\* value or returns a row twice, and neither the number of KLIFS entries nor
\* the number of distinct PDB ids grows in a step.
C11_FilterSemantics ==
    [][/\ Cell3 => ExactlyTheRows(kinase_df', kinase_df,
                                  LAMBDA r : r.ligand = "ATP")
       /\ Cell4 => ExactlyTheRows(kinase_df', kinase_df,
                      LAMBDA r : \A x \in Rows(kinase_df) :
                                    x.pdb = r.pdb => x.ligand = r.ligand)
       /\ Cell5 => ExactlyTheRows(kinase_df', kinase_df,
                                  LAMBDA r : r.allosteric_ligand = 0)
       /\ Cell6 => /\ Rows(kinase_df') \subseteq Rows(kinase_df)
                   /\ Len(kinase_df') = Cardinality(Rows(kinase_df'))
       /\ Cell9 => ExactlyTheRows(kinase_df', kinase_df,
                                  LAMBDA r : r.DFG # "na")
       /\ (Cell3 \/ Cell4 \/ Cell5 \/ Cell6 \/ Cell9) =>
             CountsNotLarger(kinase_df', kinase_df)]_vars

C11_Witness ==
    /\ Atp
    /\ pc = "done"
    /\ shown.cell3.klifs < shown.cell2.klifs
    /\ shown.cell4.klifs = 2
    /\ shown.cell5.klifs < shown.cell4.klifs
    /\ kinase_df # <<>>

\* C12: in the docking notebooks a featurize call that raised is the last
\* call: the cell has stopped with the error at that ligand, the ligands
\* behind it in tkis were not featurized, and system was not assigned.
C12_RaiseStopsLoop ==
    Docking =>
        /\ \A k \in 1..Len(featurize_calls) :
             featurize_calls[k].raised =>
                /\ k = Len(featurize_calls)
                /\ pc = "error"
                /\ tki_i = k
                /\ system # None => system.of # featurize_calls[k].arg.oid
        /\ pc = "error" =>
              /\ featurize_calls # <<>>
              /\ featurize_calls[Len(featurize_calls)].raised

C12_Witness ==
    /\ Docking
    /\ pc = "error"
    /\ Len(featurize_calls) = 3
    /\ featurize_calls[3].arg.components[2].name = "dasatinib"

\* the positions in the retrieved table of the structures of PDB id p that
\* pass the filters of cells 3 to 5
Survivors(p) ==
    {i \in 1..Len(klifs) :
        /\ klifs[i].pdb = p
        /\ klifs[i].ligand = "ATP"
        /\ klifs[i].allosteric_ligand = 0}

\* the survivor of p that cell 6 selects: no other survivor is better, and of
\* several equally good ones it is the first of the table
BestSurvivor(p) ==
    CHOOSE i \in Survivors(p) :
        \A j \in Survivors(p) :
            /\ AtLeastAsGood(klifs[i], klifs[j])
            /\ AtLeastAsGood(klifs[j], klifs[i]) => i <= j

\* C13: the best row of a PDB id is selected before the DFG filter: once cell
\* 9 has run, kinase_df holds a PDB id exactly if the best row of the PDB id
\* among the rows that passed cells 3 to 5 has a DFG value other than 'na',
\* and the row it holds is that best row.
C13_BestRowThenDfg ==
    HasRun("cell9") =>
        /\ {r.pdb : r \in Rows(kinase_df)} =
              {p \in PdbIds : Survivors(p) # {} /\ klifs[BestSurvivor(p)].DFG # "na"}
        /\ \A r \in Rows(kinase_df) : r.structure_ID = BestSurvivor(r.pdb)

C13_Witness ==
    /\ Atp
    /\ pc = "done"
    /\ \E p \in PdbIds :
         /\ \A r \in Rows(kinase_df) : r.pdb # p
         /\ Survivors(p) # {}
         /\ klifs[BestSurvivor(p)].DFG = "na"
         /\ \E j \in Survivors(p) : klifs[j].DFG = "in"

\* the PDB id of the structure the k-th fetch of the file loops asked for
FetchedPdb(k) == klifs[fetched[k].structure_ID].pdb

AllBuckets == {"no_mg", "one_mg", "two_mg", "more_mg"}

\* C14: the file loops do not recover from a failed fetch.  A fetch that
\* raised is the last fetch of the run and the notebook has stopped with the
\* error; every fetch before it has its file on disk with the text it
\* returned; the failing structure and the structures behind it have no file
\* from the loop; and when the fetch failed in the loop of cell 13 the PDB id
\* of the failing structure is in one of the four lists all the same, while
\* none of the four bucket directories holds a file for it.
C14_NoFailureRecovery ==
    (Atp /\ fetched # <<>>) =>
        LET n == Len(fetched)
            last == fetched[n]
        IN  /\ \A k \in 1..n : fetched[k].raised => (k = n /\ pc = "error")
            /\ pc = "error" => last.raised
            /\ \A k \in 1..n :
                 ~fetched[k].raised =>
                    /\ fetched[k].wrote \in DOMAIN files
                    /\ files[fetched[k].wrote] = fetched[k].text
            /\ DOMAIN files = {fetched[k].wrote : k \in {j \in 1..n : ~fetched[j].raised}}
            /\ Len(no_mg) + Len(one_mg) + Len(two_mg) + Len(more_mg)
                  = Cardinality({k \in 1..n : fetched[k].cell = 13})
            /\ (last.raised /\ last.cell = 12) =>
                  FileIn(BaseDir, FetchedPdb(n)) \notin DOMAIN files
            /\ (last.raised /\ last.cell = 13) =>
                  /\ Occurrences(no_mg \o one_mg \o two_mg \o more_mg, FetchedPdb(n)) = 1
                  /\ \A b \in AllBuckets :
                        FileIn(DirOfList[b], FetchedPdb(n)) \notin DOMAIN files

C14_Witness ==
    /\ Atp
    /\ pc = "error"
    /\ Len(fetched) = 4
    /\ fetched[4].cell = 13
    /\ fetched[4].raised
    /\ Len(one_mg) = 2
    /\ Cardinality(DOMAIN files) = 3

\* the positions in fetched of the fetches of the loop of cell c, in this run
FetchesOf(c) == {k \in 1..Len(fetched) : fetched[k].cell = c}

\* C15: in every run, the file the loop of cell 13 opens for a structure was
\* written before by the loop of cell 12 of the same run, for the same
\* structure, and still holds the text that loop wrote; the loop of cell 13
\* takes the structures in the order the loop of cell 12 took them.
C15_ReadsOwnDownloads ==
    Atp =>
        \A k \in FetchesOf(13) :
            /\ \E j \in FetchesOf(12) :
                 /\ j < k
                 /\ ~fetched[j].raised
                 /\ fetched[j].structure_ID = fetched[k].structure_ID
                 /\ fetched[j].wrote = fetched[k].read
                 /\ fetched[k].read \in DOMAIN files
                 /\ files[fetched[k].read] = fetched[j].text
            /\ k > Cardinality(FetchesOf(12))
            /\ fetched[k].structure_ID
                  = fetched[k - Cardinality(FetchesOf(12))].structure_ID

C15_Witness ==
    /\ Atp
    /\ run = 2
    /\ pc = "done"
    /\ Len(fetched) = 4
    /\ fetched[3].read \in DOMAIN prev.files
    /\ prev.files[fetched[3].read] # files[fetched[3].read]

\* the bucket directory for a number of MG atoms, written out
DirOfCount(n) ==
    CASE n = 0 -> DirOfList.no_mg
      [] n = 1 -> DirOfList.one_mg
      [] n = 2 -> DirOfList.two_mg
      [] n > 2 -> DirOfList.more_mg

\* the fetch of cell 12 and the fetch of cell 13 at positions j and k of
\* fetched were for the same structure and returned the same text
SameTextTwice(j, k) ==
    /\ j \in FetchesOf(12)
    /\ k \in FetchesOf(13)
    /\ ~fetched[j].raised
    /\ ~fetched[k].raised
    /\ fetched[j].structure_ID = fetched[k].structure_ID
    /\ fetched[j].text = fetched[k].text

\* C16: when the fetch of cell 12 and the fetch of cell 13 returned the same
\* text for a structure, the file the loop of cell 13 wrote for it is the same
\* text as its file in the base directory, and it lies in the bucket directory
\* for the number of MG atoms it holds.
C16_SameTextSameBucket ==
    Atp =>
        \A j, k \in 1..Len(fetched) :
            SameTextTwice(j, k) =>
                /\ fetched[k].wrote \in DOMAIN files
                /\ files[fetched[k].wrote] = files[fetched[k].read]
                /\ Parent(fetched[k].wrote)
                      = DirOfCount(MgAtoms(files[fetched[k].wrote]))

C16_Witness ==
    /\ Atp
    /\ pc = "done"
    /\ \E j, k \in 1..Len(fetched) :
         /\ SameTextTwice(j, k)
         /\ MgAtoms(fetched[k].text) = 2
         /\ Parent(fetched[k].wrote) = DirOfList.two_mg

\* the positions in fetched of the fetches that wrote a file
Writes == {k \in 1..Len(fetched) : fetched[k].wrote # NoPath}

\* C17: within one run no path is written twice by the same loop.  The rows
\* the loops iterate have pairwise distinct PDB ids, two writes of the same
\* loop go to different paths, and every written file holds the text fetched
\* for the structure it was written for.
C17_NoPathWrittenTwice ==
    Atp =>
        /\ \A i, j \in 1..Len(loop_rows) :
              loop_rows[i].pdb = loop_rows[j].pdb => i = j
        /\ \A j, k \in Writes :
              (fetched[j].cell = fetched[k].cell /\ fetched[j].wrote = fetched[k].wrote)
                 => j = k
        /\ \A k \in Writes :
              /\ fetched[k].wrote[Len(fetched[k].wrote)] = <<FetchedPdb(k), ".pdb">>
              /\ files[fetched[k].wrote] = ComplexPdbText(klifs, fetched[k].structure_ID)

C17_Witness ==
    /\ Atp
    /\ pc = "done"
    /\ Cardinality(Writes) = 4
    /\ Len(klifs) = 3
    /\ \E i, j \in 1..Len(klifs) : i # j /\ klifs[i].pdb = klifs[j].pdb
    /\ Cardinality({fetched[k].wrote : k \in Writes}) = 4

\* C18: no step of the ATP notebook, in any run, removes a file or a
\* directory: every path that is a file before a step is a file after it,
\* every directory stays, a step creates or overwrites at most one file, and
\* every file an earlier run left is still there in the next run.
C18_PathsOnlyGrow ==
    [][Atp =>
          /\ DOMAIN files \subseteq DOMAIN files'
          /\ dirs \subseteq dirs'
          /\ Cardinality({x \in DOMAIN files' :
                             x \notin DOMAIN files \/ files'[x] # files[x]}) <= 1
          /\ DOMAIN prev.files \subseteq DOMAIN files]_vars

\* a later run has put a PDB id into one list while the file an earlier run
\* wrote for it lies in the bucket directory of another list
C18_Witness ==
    /\ Atp
    /\ run = 2
    /\ pc = "done"
    /\ \E b, c \in AllBuckets :
         /\ b # c
         /\ \E i \in 1..Len(ListNamed(b)) :
              LET stale == FileIn(DirOfList[c], ListNamed(b)[i])
              IN  /\ Occurrences(ListNamed(c), ListNamed(b)[i]) = 0
                  /\ stale \in DOMAIN prev.files
                  /\ stale \in DOMAIN files
                  /\ files[stale] = prev.files[stale]

\* C19: a second run of the ATP notebook against unchanged remote data ends
\* as the first run ended: when two runs one after the other both ran to the
\* end and the remote data did not change during either, the later run ends
\* with the same kinase_df, the same four lists, and the same files with the
\* same contents as the earlier one.
C19_SecondRunSame ==
    (/\ Atp
     /\ pc = "done"
     /\ run >= 2
     /\ prev.pc = "done"
     /\ ~prev.changed
     /\ ~changed) =>
        /\ kinase_df = prev.kinase_df
        /\ SelectSeq(kinase_df, LAMBDA r : r.aC_helix = "in")
              = SelectSeq(prev.kinase_df, LAMBDA r : r.aC_helix = "in")
        /\ no_mg = prev.no_mg
        /\ one_mg = prev.one_mg
        /\ two_mg = prev.two_mg
        /\ more_mg = prev.more_mg
        /\ DOMAIN files = DOMAIN prev.files
        /\ \A x \in DOMAIN files : files[x] = prev.files[x]

C19_Witness ==
    /\ Atp
    /\ run = 2
    /\ pc = "done"
    /\ prev.pc = "done"
    /\ ~prev.changed
    /\ ~changed
    /\ Len(prev.one_mg) = 2
    /\ Cardinality(DOMAIN files) = 4

====
